---------------------------- MODULE Spec2Model ----------------------------
(***************************************************************************)
(* Model of marathon/objects.py (Matrix, Truck, PointRestriction) and of   *)
(* marathon/truck_processor.py (TruckProcessor.iteration).                 *)
(*                                                                         *)
(* One behaviour is one call of TruckProcessor.iteration(truck_ids, n, m,  *)
(* matrix_raw, restrictions).  The Matrix and the Truck under construction *)
(* are records; every pass of the loop in Truck.calculate, every pop of    *)
(* Truck.unload and every stage of process_truck is one action.            *)
(***************************************************************************)
EXTENDS Integers, Sequences, FiniteSets, Bags, TLC

(* ------------------------------ bounds --------------------------------- *)

\* Points lie on a line at coordinates 0..MaxCoord (the depot at 0).
MaxCoord == 1

\* Fuel budgets are drawn from 1..MaxFuel.
MaxFuel == 4

\* The passes the loops of Truck.calculate and Truck._unload_one may make for
\* one truck before the model stops counting.
MaxPasses == 40

\* Extra length of a hop between two points whose ids are not neighbours,
\* in the matrices that do not satisfy the triangle inequality.
Detour == 3

\* The (n, m, k) triples of the inputs.
Shapes ==
    { <<1, 1, 1>>, <<1, 1, 2>>, <<2, 2, 1>>, <<2, 2, 2>>, <<3, 1, 1>>, <<3, 2, 1>> }

(* ------------------------- program constants --------------------------- *)

\* Matrix.CLOSEST_DISTANCE_RANGE
CLOSEST_DISTANCE_RANGE == 10

\* Truck._capacity (25 in the source; scaled down so that a truck can fill up)
Capacity == 2

(* ------------------------------ state ---------------------------------- *)

VARIABLES
    n, m,             \* Matrix._n, Matrix._m
    matrix_raw,       \* Matrix._matrix
    truck_ids,        \* the processing order
    restrictions,     \* fuel of every truck index
    matrix,           \* the Matrix: [used, used_n]
    truck,            \* the Truck being calculated
    pc,               \* position in TruckProcessor.iteration
    mode,             \* who runs the truck: "seed", "explore" or "commit"
    vi,               \* position in truck_ids of the vehicle being processed
    seeds,            \* initial distances still to try (line 63)
    alternatives,     \* pending alternatives of the vehicle (line 58)
    all_alternatives, \* hashes of every alternative seen (line 59)
    best_result, best_route,
    counter,          \* line 75
    ret,              \* (result, route) of process_truck
    trucks_routes,    \* line 56
    score,            \* first element of the value returned by iteration
    raised,           \* the exception that left iteration, "" if none
    trip,             \* history: the latest _add_route_point and whether the
                      \* very next change of the route popped that point
    mp_results,       \* TruckProcessor.mp_results: score -> routes
    reports,          \* history: the task results on_success was called with
    passes,           \* history: the passes the loops of calculate and of
                      \* _unload_one have made for the truck
    entry,            \* history: the Matrix as the truck was created, or
                      \* before the latest call made on it directly
    stack,            \* history: the points iteration has in use, in use order
    log               \* history of the pending list of the vehicle: what was
                      \* appended and what was popped, each with the number
                      \* of times, and what was left out as seen before

vars == << n, m, matrix_raw, truck_ids, restrictions, matrix, truck, pc, mode,
           vi, seeds, alternatives, all_alternatives, best_result, best_route,
           counter, ret, trucks_routes, score, raised, trip, mp_results,
           reports, passes, entry, stack, log >>

\* the state of the pool of order computations
pool == << mp_results, reports >>

inputs == << n, m, matrix_raw, truck_ids, restrictions >>

(* ----------------------------- helpers --------------------------------- *)

Abs(i) == IF i < 0 THEN -i ELSE i

Min(S) == CHOOSE x \in S : \A y \in S : x <= y

RECURSIVE Ascending(_)
\* the elements of a finite set of integers in ascending order (sorted(...))
Ascending(S) ==
    IF S = {} THEN << >>
    ELSE LET x == Min(S) IN << x >> \o Ascending(S \ {x})

Range(s) == { s[i] : i \in 1..Len(s) }

Last(s) == s[Len(s)]

Front(s) == SubSeq(s, 1, Len(s) - 1)

RemoveAt(s, i) == SubSeq(s, 1, i - 1) \o SubSeq(s, i + 1, Len(s))

Points == 1..(n + m)

(* ------------------------------ Matrix --------------------------------- *)

is_used(mx, point) == point \in mx.used

is_n_point(point) == point > 0 /\ point <= n

is_m_point(point) == point > n /\ point <= n + m

distance(point1, point2) == matrix_raw[point1][point2]

\* keys of Matrix._distances[point]: the depot and the point itself are
\* skipped as targets (lines 35-40)
distances_keys(point) ==
    { distance(point, point2) : point2 \in Points \ {point} }

\* Matrix._distances[point][d]
distances_targets(point, d) ==
    { point2 \in Points \ {point} : distance(point, point2) = d }

\* Matrix._closest_distances[point] (lines 47-52), as a set
closest_distances(point) ==
    LET closest == Min(distances_keys(point))
    IN  { d \in distances_keys(point) : d <= CLOSEST_DISTANCE_RANGE * closest }

Matrix_init == [ used |-> {}, used_n |-> 0 ]

\* Matrix.use: [matrix, raised]
Matrix_use(mx, point) ==
    IF is_used(mx, point)
    THEN [ matrix |-> mx, raised |-> "Exception: already used" ]
    ELSE [ matrix |-> [ used   |-> mx.used \cup {point},
                        used_n |-> IF is_n_point(point) THEN mx.used_n + 1
                                                       ELSE mx.used_n ],
           raised |-> "" ]

\* Matrix.free with the N-point counter left as it is
Matrix_free_uncounted(mx, point) ==
    IF point \in mx.used
    THEN [ matrix |-> [ used |-> mx.used \ {point}, used_n |-> mx.used_n ],
           raised |-> "" ]
    ELSE [ matrix |-> mx, raised |-> "KeyError" ]

\* Matrix.free: the counter is decremented before set.remove can raise
Matrix_free(mx, point) ==
    LET counted == IF is_n_point(point) THEN mx.used_n - 1 ELSE mx.used_n
    IN  IF point \in mx.used
        THEN [ matrix |-> [ used |-> mx.used \ {point}, used_n |-> counted ],
               raised |-> "" ]
        ELSE [ matrix |-> [ used |-> mx.used, used_n |-> counted ],
               raised |-> "KeyError" ]

get_used_n_points(mx) == mx.used_n

have_free_n_points(mx) == mx.used_n < n

\* get_initial_closest_distances without the break of line 109
get_initial_closest_distances_uncut(mx) ==
    LET unused(d) == \E t \in distances_targets(0, d) : ~is_used(mx, t)
        avail     == { d \in distances_keys(0) : unused(d) }
    IN  IF avail = {}
        THEN [ stop |-> TRUE, distances |-> << >> ]
        ELSE LET closest == Min(avail)
             IN  IF closest = Min(closest_distances(0))
                 THEN [ stop |-> FALSE,
                        distances |-> Ascending(closest_distances(0)) ]
                 ELSE [ stop |-> FALSE,
                        distances |-> Ascending(
                            { d \in distances_keys(0) : d >= closest }) ]

\* Matrix.get_initial_closest_distances: [stop, distances]
get_initial_closest_distances(mx) ==
    LET unused(d) == \E t \in distances_targets(0, d) : ~is_used(mx, t)
        avail     == { d \in distances_keys(0) : unused(d) }
    IN  IF avail = {}
        THEN [ stop |-> TRUE, distances |-> << >> ]
        ELSE LET closest == Min(avail)
             IN  IF closest = Min(closest_distances(0))
                 THEN [ stop |-> FALSE,
                        distances |-> Ascending(closest_distances(0)) ]
                 ELSE [ stop |-> FALSE,
                        distances |-> Ascending(
                            { d \in distances_keys(0) :
                                /\ d >= closest
                                /\ d <= closest * CLOSEST_DISTANCE_RANGE }) ]

point_allowed(point_restriction, target) ==
    \/ point_restriction = "None"
    \/ point_restriction = "N" /\ is_n_point(target)
    \/ point_restriction = "M" /\ is_m_point(target)

\* nearest_point with maximum_distance not looked at
nearest_point_any_distance(mx, point, maximum_distance, point_restriction, force_distance) ==
    LET targets(d) == { t \in distances_targets(point, d) :
                          ~is_used(mx, t) /\ point_allowed(point_restriction, t) }
        generator  == IF force_distance # << >>
                      THEN { d \in distances_keys(point) : d = force_distance[1] }
                      ELSE distances_keys(point)
        hits       == { d \in generator : targets(d) # {} }
    IN  IF hits = {}
        THEN [ stop |-> TRUE, points |-> << >>, distance |-> 0, closest |-> FALSE ]
        ELSE LET d == Min(hits)
             IN  [ stop     |-> FALSE,
                   points   |-> Ascending(targets(d)),
                   distance |-> d,
                   closest  |-> d \in closest_distances(point) ]

\* nearest_point handing back every target at the distance found
nearest_point_unfiltered(mx, point, maximum_distance, point_restriction, force_distance) ==
    LET targets(d) == { t \in distances_targets(point, d) :
                          ~is_used(mx, t) /\ point_allowed(point_restriction, t) }
        generator  == IF force_distance # << >>
                      THEN { d \in distances_keys(point) : d = force_distance[1] }
                      ELSE distances_keys(point)
        hits       == { d \in generator :
                          d <= maximum_distance /\ targets(d) # {} }
    IN  IF hits = {}
        THEN [ stop |-> TRUE, points |-> << >>, distance |-> 0, closest |-> FALSE ]
        ELSE LET d == Min(hits)
             IN  [ stop     |-> FALSE,
                   points   |-> Ascending(distances_targets(point, d)),
                   distance |-> d,
                   closest  |-> d \in closest_distances(point) ]

\* Matrix.nearest_point: [stop, points, distance, closest];
\* force_distance is << >> for None and << d >> for a distance d
nearest_point(mx, point, maximum_distance, point_restriction, force_distance) ==
    LET targets(d) == { t \in distances_targets(point, d) :
                          ~is_used(mx, t) /\ point_allowed(point_restriction, t) }
        generator  == IF force_distance # << >>
                      THEN { d \in distances_keys(point) : d = force_distance[1] }
                      ELSE distances_keys(point)
        hits       == { d \in generator :
                          d <= maximum_distance /\ targets(d) # {} }
    IN  IF hits = {}
        THEN [ stop |-> TRUE, points |-> << >>, distance |-> 0, closest |-> FALSE ]
        ELSE LET d == Min(hits)
             IN  [ stop     |-> FALSE,
                   points   |-> Ascending(targets(d)),
                   distance |-> d,
                   closest  |-> d \in closest_distances(point) ]

(* ------------------------------- Truck --------------------------------- *)

\* Truck.__init__ with the hint not kept
Truck_init_without_hint(k, fuel, hint, initial_distance) ==
    [ k                |-> k,
      fuel             |-> fuel,
      distance         |-> 0,
      hint             |-> << >>,
      hint_used        |-> FALSE,
      initial_distance |-> initial_distance,
      route            |-> << >>,
      alternatives     |-> << >>,
      done             |-> FALSE,
      cargo            |-> 0,
      capacity         |-> Capacity,
      unloading        |-> FALSE,
      safepoint        |-> 0 ]

\* Truck.__init__; hint and initial_distance default to tuple() and None
Truck_init(k, fuel, hint, initial_distance) ==
    [ k                |-> k,
      fuel             |-> fuel,
      distance         |-> 0,
      hint             |-> hint,
      hint_used        |-> FALSE,
      initial_distance |-> initial_distance,
      route            |-> << >>,
      alternatives     |-> << >>,
      done             |-> FALSE,
      cargo            |-> 0,
      capacity         |-> Capacity,
      unloading        |-> FALSE,
      safepoint        |-> 0 ]

\* PointRestriction.get with the full truck one unit late
PointRestriction_get_late(cargo, capacity) ==
    IF cargo = 0 THEN "N"
    ELSE IF cargo = capacity + 1 THEN "M"
    ELSE "None"

\* PointRestriction.get never asking for an M-point
PointRestriction_get_unrestricted(cargo, capacity) ==
    IF cargo = 0 THEN "N" ELSE "None"

PointRestriction_get(cargo, capacity) ==
    IF cargo = 0 THEN "N"
    ELSE IF cargo = capacity THEN "M"
    ELSE "None"

get_position(tr) == IF tr.route = << >> THEN 0 ELSE Last(tr.route)

get_route(tr) == tr.route

\* _add_route_point with the hop left out of the distance
add_route_point_no_distance(tr, mx, point, dist) ==
    LET moved == [ tr EXCEPT !.route = Append(tr.route, point),
                             !.cargo = IF is_n_point(point)
                                       THEN tr.cargo + 1 ELSE tr.cargo - 1 ]
        use   == Matrix_use(mx, point)
    IN  [ truck |-> moved, matrix |-> use.matrix, raised |-> use.raised ]

\* Truck._add_route_point: [truck, matrix, raised]
add_route_point(tr, mx, point, dist) ==
    LET moved == [ tr EXCEPT !.route    = Append(tr.route, point),
                             !.distance = tr.distance + dist,
                             !.cargo    = IF is_n_point(point)
                                          THEN tr.cargo + 1 ELSE tr.cargo - 1 ]
        use   == Matrix_use(mx, point)
    IN  [ truck |-> moved, matrix |-> use.matrix, raised |-> use.raised ]

\* the loop body of Truck.unload taking one unit of cargo off whatever the
\* kind of the popped point
unload_pop_one_way(tr, mx) ==
    IF tr.route = << >>
    THEN [ truck |-> tr, matrix |-> mx,
           raised |-> "IndexError: Unloaded until start position" ]
    ELSE LET position == Last(tr.route)
             popped   == [ tr EXCEPT !.route = Front(tr.route) ]
             free     == Matrix_free(mx, position)
         IN  [ truck |->
                 [ popped EXCEPT
                     !.distance = tr.distance
                                  - distance(get_position(popped), position),
                     !.cargo    = tr.cargo - 1 ],
               matrix |-> free.matrix,
               raised |-> free.raised ]

\* the loop body of Truck.unload leaving the popped point in use
unload_pop_not_freed(tr, mx) ==
    IF tr.route = << >>
    THEN [ truck |-> tr, matrix |-> mx,
           raised |-> "IndexError: Unloaded until start position" ]
    ELSE LET position == Last(tr.route)
             popped   == [ tr EXCEPT !.route = Front(tr.route) ]
         IN  [ truck |->
                 [ popped EXCEPT
                     !.distance = tr.distance
                                  - distance(get_position(popped), position),
                     !.cargo    = IF is_m_point(position)
                                  THEN tr.cargo + 1 ELSE tr.cargo - 1 ],
               matrix |-> mx,
               raised |-> "" ]

\* the loop body of Truck.unload taking the first point of the route, not
\* the last
unload_pop_front(tr, mx) ==
    IF tr.route = << >>
    THEN [ truck |-> tr, matrix |-> mx,
           raised |-> "IndexError: Unloaded until start position" ]
    ELSE LET position == Head(tr.route)
             popped   == [ tr EXCEPT !.route = Tail(tr.route) ]
             free     == Matrix_free(mx, position)
         IN  [ truck |->
                 [ popped EXCEPT
                     !.distance = tr.distance - distance(0, position),
                     !.cargo    = IF is_m_point(position)
                                  THEN tr.cargo + 1 ELSE tr.cargo - 1 ],
               matrix |-> free.matrix,
               raised |-> free.raised ]

\* one pass of the loop of Truck.unload (lines 325-335)
unload_pop(tr, mx) ==
    IF tr.route = << >>
    THEN [ truck |-> tr, matrix |-> mx,
           raised |-> "IndexError: Unloaded until start position" ]
    ELSE LET position == Last(tr.route)
             popped   == [ tr EXCEPT !.route = Front(tr.route) ]
             free     == Matrix_free(mx, position)
         IN  IF free.raised # ""
             THEN [ truck |-> popped, matrix |-> free.matrix,
                    raised |-> free.raised ]
             ELSE [ truck |->
                      [ popped EXCEPT
                          !.distance = tr.distance
                                       - distance(get_position(popped), position),
                          !.cargo    = IF is_m_point(position)
                                       THEN tr.cargo + 1 ELSE tr.cargo - 1 ],
                    matrix |-> free.matrix,
                    raised |-> "" ]

RECURSIVE unload_loop(_, _, _)
\* while len(self._route) != to + 1
unload_loop(tr, mx, to) ==
    IF Len(tr.route) = to + 1
    THEN [ truck |-> tr, matrix |-> mx, raised |-> "" ]
    ELSE LET one == unload_pop(tr, mx)
         IN  IF one.raised # "" THEN one
             ELSE unload_loop(one.truck, one.matrix, to)

\* Truck.unload(to) taking the index before the last for out of range
unload_index_off_by_one(tr, mx, to) ==
    IF tr.route = << >> /\ to < 0
    THEN [ truck |-> tr, matrix |-> mx, raised |-> "" ]
    ELSE IF to >= Len(tr.route) - 2
    THEN [ truck |-> tr, matrix |-> mx,
           raised |-> "Exception: Wrong unload index" ]
    ELSE unload_loop(tr, mx, to)

\* Truck.unload(to): [truck, matrix, raised]
unload(tr, mx, to) ==
    IF tr.route = << >> /\ to < 0
    THEN [ truck |-> tr, matrix |-> mx, raised |-> "" ]
    ELSE IF to >= Len(tr.route) - 1
    THEN [ truck |-> tr, matrix |-> mx,
           raised |-> "Exception: Wrong unload index" ]
    ELSE unload_loop(tr, mx, to)

\* sum of the distances between consecutive points of an alternative
RECURSIVE internal_distance(_)
internal_distance(alternative) ==
    IF Len(alternative) < 2 THEN 0
    ELSE distance(alternative[1], alternative[2])
         + internal_distance(Tail(alternative))

\* Truck.get_alternatives: sum / fuel < 0.15, for fuel > 0
get_alternatives(tr) ==
    SelectSeq(tr.alternatives,
              LAMBDA a : internal_distance(a) * 100 < 15 * tr.fuel)

\* the checks made while the truck is empty, the safepoint not looked at
calculate_empty_check_no_safepoint(tr, mx) ==
    IF tr.cargo # 0 THEN [ truck |-> tr, stop |-> FALSE ]
    ELSE IF ~have_free_n_points(mx) THEN [ truck |-> tr, stop |-> TRUE ]
    ELSE IF ~tr.unloading THEN [ truck |-> tr, stop |-> FALSE ]
    ELSE [ truck |-> [ tr EXCEPT !.safepoint = get_position(tr),
                                 !.unloading = FALSE ],
           stop  |-> FALSE ]

\* lines 218-227: the checks made while the truck is empty: [truck, stop]
calculate_empty_check(tr, mx) ==
    IF tr.cargo # 0 THEN [ truck |-> tr, stop |-> FALSE ]
    ELSE IF ~have_free_n_points(mx) THEN [ truck |-> tr, stop |-> TRUE ]
    ELSE IF ~tr.unloading THEN [ truck |-> tr, stop |-> FALSE ]
    ELSE IF tr.safepoint # get_position(tr)
    THEN [ truck |-> [ tr EXCEPT !.safepoint = get_position(tr),
                                 !.unloading = FALSE ],
           stop  |-> FALSE ]
    ELSE [ truck |-> tr, stop |-> TRUE ]

\* the StopIteration handler ending the truck whatever it carries
calculate_stop_loaded(tr, mx) ==
    [ truck |-> [ tr EXCEPT !.done = TRUE ], matrix |-> mx,
      raised |-> "", kind |-> "stop" ]

\* lines 257-262: except StopIteration, up to the call of _unload_one
calculate_stop(tr, mx) ==
    IF tr.cargo = 0
    THEN [ truck |-> [ tr EXCEPT !.done = TRUE ], matrix |-> mx,
           raised |-> "", kind |-> "stop" ]
    ELSE [ truck |-> [ tr EXCEPT !.unloading = TRUE ], matrix |-> mx,
           raised |-> "", kind |-> "unload" ]

\* lines 253-256
calculate_commit(tr, mx, point, dist, kind) ==
    LET added == add_route_point(tr, mx, point, dist)
    IN  [ truck  |-> IF added.raised = ""
                     THEN [ added.truck EXCEPT !.unloading = FALSE ]
                     ELSE added.truck,
          matrix |-> added.matrix,
          raised |-> added.raised,
          kind   |-> kind ]

\* lines 232-236
calculate_hint(tr, mx) ==
    LET point == tr.hint[Len(tr.route) + 1]
    IN  IF is_used(mx, point)
        THEN [ truck |-> tr, matrix |-> mx,
               raised |-> "Exception: Hint point already used", kind |-> "hint" ]
        ELSE calculate_commit(tr, mx, point,
                              distance(get_position(tr), point), "hint")

\* lines 239-247: the query Truck.calculate puts to the Matrix
calculate_nearest(tr, mx) ==
    nearest_point(mx,
                  get_position(tr),
                  tr.fuel - tr.distance,
                  IF ~tr.unloading
                  THEN PointRestriction_get(tr.cargo, tr.capacity)
                  ELSE "M",
                  IF Len(tr.route) = 0 THEN tr.initial_distance ELSE << >>)

\* the query branch noting only the first of the candidates left over
calculate_query_first_only(tr, mx) ==
    LET asked == [ tr EXCEPT !.hint_used = TRUE ]
        found == calculate_nearest(asked, mx)
    IN  IF found.stop THEN calculate_stop(asked, mx)
        ELSE LET points == found.points
                 noted  == IF Len(points) > 2 /\ found.closest
                           THEN [ asked EXCEPT !.alternatives =
                                    Append(asked.alternatives,
                                           Append(asked.route, points[2])) ]
                           ELSE asked
             IN  calculate_commit(noted, mx, points[1], found.distance, "query")

\* lines 238-251
calculate_query(tr, mx) ==
    LET asked == [ tr EXCEPT !.hint_used = TRUE ]
        found == calculate_nearest(asked, mx)
    IN  IF found.stop THEN calculate_stop(asked, mx)
        ELSE LET points == found.points
                 noted  == IF Len(points) > 2 /\ found.closest
                           THEN [ asked EXCEPT !.alternatives =
                                    asked.alternatives \o
                                    [ i \in 1..(Len(points) - 1) |->
                                        Append(asked.route, points[i + 1]) ] ]
                           ELSE asked
             IN  calculate_commit(noted, mx, points[1], found.distance, "query")

\* one pass of the loop of Truck.calculate (lines 217-262), up to the call
\* of _unload_one: [truck, matrix, raised, kind]
calculate_step(tr, mx) ==
    LET checked == calculate_empty_check(tr, mx)
        t       == checked.truck
    IN  IF checked.stop THEN calculate_stop(t, mx)
        ELSE IF ~t.hint_used /\ Len(t.hint) >= Len(t.route) + 1
        THEN calculate_hint(t, mx)
        ELSE calculate_query(t, mx)

(* ------------------------ TruckProcessor.iteration --------------------- *)

\* the truck index being processed (for index in truck_ids)
index == truck_ids[vi]

\* hash(tuple(a)): the points of a, read as the digits of a number; no two
\* sequences of points share a value
RECURSIVE Hash(_)
Hash(a) == IF a = << >> THEN 0 ELSE a[1] + (n + m + 1) * Hash(Tail(a))

\* the alternatives of the truck taken as they are, all_alternatives not
\* asked
new_alternatives_unfiltered(candidates, all) ==
    [ new |-> candidates,
      all |-> all \cup { Hash(candidates[i]) : i \in 1..Len(candidates) } ]

\* lines 28-33 and 45-48: the alternatives of the truck not seen before, each
\* entered into all_alternatives as it is met: [new, all]
RECURSIVE new_alternatives(_, _)
new_alternatives(candidates, all) ==
    IF candidates = << >> THEN [ new |-> << >>, all |-> all ]
    ELSE LET element == Hash(Head(candidates))
         IN  IF element \notin all
             THEN LET rest == new_alternatives(Tail(candidates),
                                               all \cup {element})
                  IN  [ new |-> << Head(candidates) >> \o rest.new,
                        all |-> rest.all ]
             ELSE new_alternatives(Tail(candidates), all)

\* process_truck with the comparison of line 41 turned round
process_truck_result_reversed(tr, mx, best) ==
    IF best > get_used_n_points(mx) /\ get_route(tr) # << >>
    THEN [ result |-> << get_used_n_points(mx) >>, route |-> << get_route(tr) >> ]
    ELSE [ result |-> << >>, route |-> << >> ]

\* process_truck taking a route that only equals the best result
process_truck_result_not_strict(tr, mx, best) ==
    IF best <= get_used_n_points(mx) /\ get_route(tr) # << >>
    THEN [ result |-> << get_used_n_points(mx) >>, route |-> << get_route(tr) >> ]
    ELSE [ result |-> << >>, route |-> << >> ]

\* lines 35-43: (result, route) of process_truck; << >> stands for None
process_truck_result(tr, mx, best) ==
    IF best < get_used_n_points(mx) /\ get_route(tr) # << >>
    THEN [ result |-> << get_used_n_points(mx) >>, route |-> << get_route(tr) >> ]
    ELSE [ result |-> << >>, route |-> << >> ]

\* lines 70-72 and 90-92: if result and route
improved(r) ==
    /\ r.result # << >>
    /\ r.result[1] # 0
    /\ r.route # << >>
    /\ r.route[1] # << >>

\* lines 77-82: the indices alternatives.pop(i) may be called with (1-based)
pop_indices(count, length) ==
    IF count % 3 = 0 THEN { 1 }
    ELSE IF count % 2 = 0 THEN { length }
    ELSE 1..length

NoTruck == Truck_init(0, 0, << >>, << >>)

NoTrip == [ stage |-> "none", snap |-> << >> ]

\* the history of the pending list of a vehicle before its first truck
NoLog == [ appended |-> EmptyBag, rejected |-> {}, replayed |-> EmptyBag ]

\* the elements of a sequence, each with the number of its occurrences
BagOf(s) ==
    [ a \in Range(s) |-> Cardinality({ i \in 1..Len(s) : s[i] = a }) ]

\* the history of the points in use after a step from Matrix mx to Matrix
\* after: a point newly in use goes on top, points no longer in use go
Stacked(st, mx, after) ==
    LET kept == SelectSeq(st, LAMBDA point : point \in after.used)
        new  == after.used \ mx.used
    IN  IF new = {} THEN kept ELSE kept \o Ascending(new)

\* what a _add_route_point followed by a pop has to give back
Snapshot(tr, mx) ==
    [ route |-> tr.route, distance |-> tr.distance, cargo |-> tr.cargo,
      used |-> mx.used, used_n |-> mx.used_n ]

(* ------------------------------- inputs -------------------------------- *)

\* the points at coordinates x on a line, the depot at 0; with chain, a hop
\* between two ids that are not neighbours is longer by Detour, so that the
\* way through the ids in between is shorter than the direct hop
Layout(np, x, chain) ==
    LET at(p) == IF p = 0 THEN 0 ELSE x[p]
    IN  [ i \in 0..np |->
            [ j \in 0..np |->
                IF i = j THEN 0
                ELSE Abs(at(i) - at(j))
                     + (IF chain /\ Abs(i - j) >= 2 THEN Detour ELSE 0) ] ]

Orders(k) == { o \in [ 1..k -> 0..(k - 1) ] : \A i, j \in 1..k : o[i] = o[j] => i = j }

\* the arguments iteration is called with
Inputs ==
    UNION { LET np == shape[1] + shape[2]
                k  == shape[3]
            IN  { [ n            |-> shape[1],
                    m            |-> shape[2],
                    matrix_raw   |-> Layout(np, x, chain),
                    restrictions |-> fuel,
                    truck_ids    |-> order ] :
                    x \in [ 1..np -> 0..MaxCoord ],
                    fuel \in [ 0..(k - 1) -> 1..MaxFuel ],
                    order \in Orders(k) }
            : shape \in Shapes, chain \in BOOLEAN }

Init ==
    /\ \E input \in Inputs :
         /\ n = input.n
         /\ m = input.m
         /\ matrix_raw = input.matrix_raw
         /\ restrictions = input.restrictions
         /\ truck_ids = input.truck_ids
    /\ matrix = Matrix_init
    /\ truck = NoTruck
    /\ pc = "truck"
    /\ mode = "seed"
    /\ vi = 1
    /\ seeds = << >>
    /\ alternatives = << >>
    /\ all_alternatives = {}
    /\ best_result = 0
    /\ best_route = << >>
    /\ counter = 0
    /\ ret = [ result |-> << >>, route |-> << >> ]
    /\ trucks_routes = << >>
    /\ score = 0
    /\ raised = ""
    /\ trip = NoTrip
    /\ mp_results = << >>
    /\ reports = {}
    /\ passes = 0
    /\ entry = Matrix_init
    /\ stack = << >>
    /\ log = NoLog

(* ------------------------------- actions ------------------------------- *)

\* lines 57-63: the per-vehicle state and the list of initial distances
StartTruck ==
    /\ pc = "truck"
    /\ LET initial == get_initial_closest_distances(matrix)
       IN  /\ alternatives' = << >>
           /\ all_alternatives' = {}
           /\ best_result' = 0
           /\ best_route' = << >>
           /\ IF initial.stop
              THEN /\ pc' = "raised"
                   /\ raised' = "StopIteration"
                   /\ seeds' = << >>
              ELSE /\ pc' = "seed"
                   /\ raised' = raised
                   /\ seeds' = [ i \in 1..Len(initial.distances) |->
                                   << initial.distances[i] >> ] \o << << >> >>
    /\ log' = NoLog
    /\ UNCHANGED << pool, passes, entry, stack, inputs, matrix, truck, mode,
                    vi,
                    counter, ret,
                    trucks_routes, score, trip >>

\* lines 63-65: the Truck of the next initial distance
SeedTruck ==
    /\ pc = "seed"
    /\ truck' = Truck_init(index, restrictions[index], << >>, Head(seeds))
    /\ seeds' = Tail(seeds)
    /\ mode' = "seed"
    /\ pc' = "calculate"
    /\ trip' = NoTrip
    /\ passes' = 0
    /\ entry' = matrix
    /\ UNCHANGED << pool, stack, inputs, log, matrix, vi, alternatives,
                    all_alternatives,
                    best_result, best_route, counter, ret, trucks_routes,
                    score, raised >>

\* the effect of one pass of the loop of Truck.calculate that ends the way
\* `kind` says
CalculateAs(kind) ==
    LET step == calculate_step(truck, matrix)
    IN  /\ step.kind = kind
        /\ truck' = step.truck
        /\ matrix' = step.matrix
        /\ IF step.raised # ""
           THEN pc' = "raised" /\ raised' = step.raised
           ELSE /\ pc' = IF kind = "unload" THEN "unload_one" ELSE "calculate"
                /\ raised' = raised
        /\ trip' = IF kind \in { "hint", "query" } /\ step.raised = ""
                   THEN [ stage |-> "added", snap |-> Snapshot(truck, matrix) ]
                   ELSE trip
        /\ passes' = passes + 1
        /\ stack' = Stacked(stack, matrix, matrix')
        /\ UNCHANGED << pool, entry, inputs, log, mode, vi, seeds,
                        alternatives,
                        all_alternatives,
                        best_result, best_route, counter, ret, trucks_routes,
                        score >>

\* the next point of the hint is committed (lines 231-236, 253-256)
CalculateHint ==
    /\ pc = "calculate"
    /\ ~truck.done
    /\ passes < MaxPasses
    /\ CalculateAs("hint")

\* the nearest point is committed (lines 238-256)
CalculateQuery ==
    /\ pc = "calculate"
    /\ ~truck.done
    /\ passes < MaxPasses
    /\ CalculateAs("query")

\* StopIteration with an empty truck: done (lines 257-260)
CalculateStop ==
    /\ pc = "calculate"
    /\ ~truck.done
    /\ passes < MaxPasses
    /\ CalculateAs("stop")

\* StopIteration with cargo: _unload_one is entered (lines 257-263)
CalculateUnload ==
    /\ pc = "calculate"
    /\ ~truck.done
    /\ passes < MaxPasses
    /\ CalculateAs("unload")

\* the history of the round trip, after the route was popped once
Popped(tr) ==
    IF trip.stage = "added" /\ Len(tr.route) = Len(trip.snap.route)
    THEN [ trip EXCEPT !.stage = "popped" ]
    ELSE NoTrip

\* one pass of the loop of Truck._unload_one (lines 340-345)
UnloadOne ==
    /\ pc = "unload_one"
    /\ passes < MaxPasses
    /\ LET position == get_position(truck)
           freed    == unload(truck, matrix, Len(truck.route) - 2)
       IN  /\ truck' = freed.truck
           /\ matrix' = freed.matrix
           /\ IF freed.raised # ""
              THEN pc' = "raised" /\ raised' = freed.raised
              ELSE /\ pc' = IF is_n_point(position) THEN "calculate"
                                                    ELSE "unload_one"
                   /\ raised' = raised
           /\ trip' = Popped(freed.truck)
    /\ passes' = passes + 1
    /\ stack' = Stacked(stack, matrix, matrix')
    /\ UNCHANGED << pool, entry, inputs, log, mode, vi, seeds, alternatives,
                    all_alternatives,
                    best_result, best_route, counter, ret, trucks_routes, score >>

\* process_truck after truck.calculate() returned (lines 40-49)
ProcessTruck ==
    /\ pc = "calculate"
    /\ truck.done
    /\ mode \in { "seed", "explore" }
    /\ ret' = process_truck_result(truck, matrix, best_result)
    /\ LET fresh == new_alternatives(get_alternatives(truck), all_alternatives)
       IN  /\ alternatives' = alternatives \o fresh.new
           /\ all_alternatives' = fresh.all
    /\ pc' = "unload"
    /\ LET found == get_alternatives(truck)
           fresh == new_alternatives(found, all_alternatives).new
       IN  log' = [ log EXCEPT
                      !.appended = @ (+) BagOf(fresh),
                      !.rejected = @ \cup (Range(found) \ Range(fresh)) ]
    /\ UNCHANGED << pool, passes, entry, stack, inputs, matrix, truck, mode,
                    vi,
                    seeds, best_result,
                    best_route, counter, trucks_routes, score, raised, trip >>

\* truck.unload() of process_truck (line 51), one pass of its loop
Unload ==
    /\ pc = "unload"
    /\ truck.route # << >>
    /\ LET freed == unload_pop(truck, matrix)
       IN  /\ truck' = freed.truck
           /\ matrix' = freed.matrix
           /\ IF freed.raised # ""
              THEN pc' = "raised" /\ raised' = freed.raised
              ELSE pc' = pc /\ raised' = raised
           /\ trip' = Popped(freed.truck)
    /\ stack' = Stacked(stack, matrix, matrix')
    /\ UNCHANGED << pool, passes, entry, inputs, log, mode, vi, seeds,
                    alternatives, all_alternatives,
                    best_result, best_route, counter, ret, trucks_routes, score >>

\* lines 70-72 and 90-92
Improve ==
    /\ best_result' = IF improved(ret) THEN ret.result[1] ELSE best_result
    /\ best_route' = IF improved(ret) THEN ret.route[1] ELSE best_route

\* process_truck returns to the loop over the initial distances (lines 63-75)
SeedReturn ==
    /\ pc = "unload"
    /\ truck.route = << >>
    /\ mode = "seed"
    /\ Improve
    /\ pc' = IF seeds # << >> THEN "seed" ELSE "explore"
    /\ counter' = 0
    /\ UNCHANGED << pool, passes, entry, stack, inputs, log, matrix, truck,
                    mode,
                    vi,
                    seeds, alternatives,
                    all_alternatives, ret, trucks_routes, score, raised, trip >>

\* the time check of line 94 made before truck.unload() has finished
ExploreReturn_before_unload ==
    /\ pc = "unload"
    /\ mode = "explore"
    /\ Improve
    /\ \E elapsed \in BOOLEAN :
         IF elapsed
         THEN pc' = "commit" /\ counter' = counter
         ELSE pc' = "explore" /\ counter' = counter + 1
    /\ UNCHANGED << pool, passes, entry, stack, inputs, log, matrix, truck,
                    mode,
                    vi,
                    seeds, alternatives,
                    all_alternatives, ret, trucks_routes, score, raised, trip >>

\* process_truck returns to the loop over the alternatives (lines 90-97); the
\* clock decides whether the 7 seconds are over
ExploreReturn ==
    /\ pc = "unload"
    /\ truck.route = << >>
    /\ mode = "explore"
    /\ Improve
    /\ \E elapsed \in BOOLEAN :
         IF elapsed
         THEN pc' = "commit" /\ counter' = counter
         ELSE pc' = "explore" /\ counter' = counter + 1
    /\ UNCHANGED << pool, passes, entry, stack, inputs, log, matrix, truck,
                    mode,
                    vi,
                    seeds, alternatives,
                    all_alternatives, ret, trucks_routes, score, raised, trip >>

\* the Truck that replays one pending alternative, read as alternatives[i]
\* and left in the list
ExplorePop_keeping ==
    /\ pc = "explore"
    /\ alternatives # << >>
    /\ \E i \in pop_indices(counter, Len(alternatives)) :
         /\ truck' = Truck_init(index, restrictions[index], alternatives[i], << >>)
         /\ alternatives' = alternatives
         /\ log' = [ log EXCEPT
                      !.replayed = @ (+) SetToBag({ alternatives[i] }) ]
    /\ mode' = "explore"
    /\ pc' = "calculate"
    /\ trip' = NoTrip
    /\ passes' = 0
    /\ entry' = matrix
    /\ UNCHANGED << pool, stack, inputs, matrix, vi, seeds, all_alternatives,
                    best_result,
                    best_route, counter, ret, trucks_routes, score, raised >>

\* lines 76-85: the Truck that replays one pending alternative
ExplorePop ==
    /\ pc = "explore"
    /\ alternatives # << >>
    /\ \E i \in pop_indices(counter, Len(alternatives)) :
         /\ truck' = Truck_init(index, restrictions[index], alternatives[i], << >>)
         /\ alternatives' = RemoveAt(alternatives, i)
         /\ log' = [ log EXCEPT
                      !.replayed = @ (+) SetToBag({ alternatives[i] }) ]
    /\ mode' = "explore"
    /\ pc' = "calculate"
    /\ trip' = NoTrip
    /\ passes' = 0
    /\ entry' = matrix
    /\ UNCHANGED << pool, stack, inputs, matrix, vi, seeds, all_alternatives,
                    best_result,
                    best_route, counter, ret, trucks_routes, score, raised >>

\* line 76: while alternatives
ExploreExit ==
    /\ pc = "explore"
    /\ alternatives = << >>
    /\ pc' = "commit"
    /\ UNCHANGED << pool, passes, entry, stack, inputs, log, matrix, truck,
                    mode,
                    vi,
                    seeds, alternatives,
                    all_alternatives, best_result, best_route, counter, ret,
                    trucks_routes, score, raised, trip >>

\* the best route recorded, its replay (line 102) left out
Commit_without_replay ==
    /\ pc = "commit"
    /\ trucks_routes' = (index :> best_route) @@ trucks_routes
    /\ truck' = [ Truck_init(index, restrictions[index], best_route, << >>)
                    EXCEPT !.done = TRUE ]
    /\ mode' = "commit"
    /\ pc' = "calculate"
    /\ trip' = NoTrip
    /\ passes' = 0
    /\ entry' = matrix
    /\ UNCHANGED << pool, stack, inputs, log, matrix, vi, seeds, alternatives,
                    all_alternatives,
                    best_result, best_route, counter, ret, score, raised >>

\* lines 99-101: the best route is recorded and replayed as a hint
Commit ==
    /\ pc = "commit"
    /\ trucks_routes' = (index :> best_route) @@ trucks_routes
    /\ truck' = Truck_init(index, restrictions[index], best_route, << >>)
    /\ mode' = "commit"
    /\ pc' = "calculate"
    /\ trip' = NoTrip
    /\ passes' = 0
    /\ entry' = matrix
    /\ UNCHANGED << pool, stack, inputs, log, matrix, vi, seeds, alternatives,
                    all_alternatives,
                    best_result, best_route, counter, ret, score, raised >>

\* line 57: the next vehicle of the order, after the replay of line 102
NextTruck ==
    /\ pc = "calculate"
    /\ truck.done
    /\ mode = "commit"
    /\ vi < Len(truck_ids)
    /\ vi' = vi + 1
    /\ pc' = "truck"
    /\ UNCHANGED << pool, passes, entry, stack, inputs, log, matrix, truck,
                    mode,
                    seeds,
                    alternatives,
                    all_alternatives, best_result, best_route, counter, ret,
                    trucks_routes, score, raised, trip >>

\* line 104
Return ==
    /\ pc = "calculate"
    /\ truck.done
    /\ mode = "commit"
    /\ vi = Len(truck_ids)
    /\ score' = get_used_n_points(matrix)
    /\ pc' = "returned"
    /\ UNCHANGED << pool, passes, entry, stack, inputs, log, matrix, truck,
                    mode,
                    vi,
                    seeds, alternatives,
                    all_alternatives, best_result, best_route, counter, ret,
                    trucks_routes, raised, trip >>

Next ==
    \/ StartTruck
    \/ SeedTruck
    \/ CalculateHint
    \/ CalculateQuery
    \/ CalculateStop
    \/ CalculateUnload
    \/ UnloadOne
    \/ ProcessTruck
    \/ Unload
    \/ SeedReturn
    \/ ExploreReturn
    \/ ExplorePop
    \/ ExploreExit
    \/ Commit
    \/ NextTruck
    \/ Return

Spec == Init /\ [][Next]_vars


(* ----------------------- the pool of order computations --------------- *)

\* the largest element of a non-empty finite set of integers
Max(S) == CHOOSE x \in S : \A y \in S : x >= y

\* values iteration returns for orders of two vehicles over two N-points
\* (1, 2) and two M-points (3, 4): (score, routes per truck index)
TaskResults ==
    { << 0, (0 :> << >>) @@ (1 :> << >>) >>,
      << 1, (0 :> << 1, 3 >>) @@ (1 :> << >>) >>,
      << 1, (0 :> << 2, 3 >>) @@ (1 :> << >>) >>,
      << 1, (0 :> << >>) @@ (1 :> << 2, 4 >>) >>,
      << 2, (0 :> << 1, 3 >>) @@ (1 :> << 2, 4 >>) >>,
      << 2, (0 :> << 1, 2, 3, 4 >>) @@ (1 :> << >>) >> }

\* on_success with the map replaced by the one result
on_success_replacing(results, task_results) ==
    task_results[1] :> task_results[2]

\* TruckProcessor.on_success: mp_results.update({score: routes})
on_success(results, task_results) ==
    (task_results[1] :> task_results[2]) @@ results

\* the selection of the best result from the map: the largest key and its
\* routes (marathon.py, lines 301-303); the map is not empty
results_best(results) ==
    LET transfered == Max(DOMAIN results)
    IN  [ transfered |-> transfered, routes |-> results[transfered] ]

\* no iteration is running in the state of the pool
PoolInit ==
    /\ n = 2
    /\ m = 2
    /\ matrix_raw = Layout(4, [ p \in 1..4 |-> 0 ], FALSE)
    /\ restrictions = [ t \in 0..1 |-> 1 ]
    /\ truck_ids = << 0, 1 >>
    /\ matrix = Matrix_init
    /\ truck = NoTruck
    /\ pc = "pool"
    /\ mode = "seed"
    /\ vi = 1
    /\ seeds = << >>
    /\ alternatives = << >>
    /\ all_alternatives = {}
    /\ best_result = 0
    /\ best_route = << >>
    /\ counter = 0
    /\ ret = [ result |-> << >>, route |-> << >> ]
    /\ trucks_routes = << >>
    /\ score = 0
    /\ raised = ""
    /\ trip = NoTrip
    /\ mp_results = << >>
    /\ reports = {}
    /\ passes = 0
    /\ entry = Matrix_init
    /\ stack = << >>
    /\ log = NoLog

\* one order computation has finished and the pool reports its result
OnSuccess ==
    /\ pc = "pool"
    /\ \E task_results \in TaskResults :
         /\ mp_results' = on_success(mp_results, task_results)
         /\ reports' = reports \cup { task_results }
    /\ UNCHANGED << passes, entry, stack, inputs, log, matrix, truck, pc,
                    mode,
                    vi, seeds,
                    alternatives,
                    all_alternatives, best_result, best_route, counter, ret,
                    trucks_routes, score, raised, trip >>

\* TruckProcessor.rearm: mp_results.clear()
Rearm ==
    /\ pc = "pool"
    /\ mp_results' = << >>
    /\ reports' = {}
    /\ UNCHANGED << passes, entry, stack, inputs, log, matrix, truck, pc,
                    mode,
                    vi, seeds,
                    alternatives,
                    all_alternatives, best_result, best_route, counter, ret,
                    trucks_routes, score, raised, trip >>

PoolNext ==
    \/ OnSuccess
    \/ Rearm

PoolSpec == PoolInit /\ [][PoolNext]_vars

(* ------------------------- the Matrix on its own ---------------------- *)

\* the shapes of the matrices queried on their own
QueryShapes == { << 2, 2 >>, << 3, 1 >> }

\* a Matrix over one of the layouts, nothing used yet, and no truck
QueryInit ==
    /\ \E shape \in QueryShapes, chain \in BOOLEAN :
         \E x \in [ 1..(shape[1] + shape[2]) -> 0..MaxCoord ] :
           /\ n = shape[1]
           /\ m = shape[2]
           /\ matrix_raw = Layout(shape[1] + shape[2], x, chain)
    /\ restrictions = [ t \in 0..0 |-> MaxFuel ]
    /\ truck_ids = << 0 >>
    /\ matrix = Matrix_init
    /\ truck = NoTruck
    /\ pc = "query"
    /\ mode = "seed"
    /\ vi = 1
    /\ seeds = << >>
    /\ alternatives = << >>
    /\ all_alternatives = {}
    /\ best_result = 0
    /\ best_route = << >>
    /\ counter = 0
    /\ ret = [ result |-> << >>, route |-> << >> ]
    /\ trucks_routes = << >>
    /\ score = 0
    /\ raised = ""
    /\ trip = NoTrip
    /\ mp_results = << >>
    /\ reports = {}
    /\ passes = 0
    /\ entry = Matrix_init
    /\ stack = << >>
    /\ log = NoLog

\* the distances a query may be forced to: << >> for None
ForceDistances == { << >> } \cup { << d >> : d \in 0..(MaxCoord + Detour) }

\* the kinds a query may be restricted to
PointRestrictions == { "N", "M", "None" }

\* nearest_point is asked, and the first point it returns is used
QueryUse ==
    /\ pc = "query"
    /\ \E point \in 0..(n + m), maximum_distance \in 0..MaxFuel,
          point_restriction \in PointRestrictions,
          force_distance \in ForceDistances :
         LET found == nearest_point(matrix, point, maximum_distance,
                                    point_restriction, force_distance)
         IN  /\ ~found.stop
             /\ matrix' = Matrix_use(matrix, found.points[1]).matrix
    /\ UNCHANGED << stack, pool, passes, entry, inputs, log, truck, pc, mode,
                    vi, seeds,
                    alternatives, all_alternatives, best_result, best_route,
                    counter, ret, trucks_routes, score, raised, trip >>

\* a used point is freed
QueryFree ==
    /\ pc = "query"
    /\ \E point \in matrix.used :
         matrix' = Matrix_free(matrix, point).matrix
    /\ UNCHANGED << stack, pool, passes, entry, inputs, log, truck, pc, mode,
                    vi, seeds,
                    alternatives, all_alternatives, best_result, best_route,
                    counter, ret, trucks_routes, score, raised, trip >>

QueryNext ==
    \/ QueryUse
    \/ QueryFree

QuerySpec == QueryInit /\ [][QueryNext]_vars

(* ------------------- the initial distances of a Matrix ----------------- *)

\* the distances from the depot the points are laid out at
DepotDistances == { 0, 1, 2, 11, 21 }

\* two N-points and two M-points
DepotShape == << 2, 2 >>

\* a Matrix over points at those distances from the depot and at distance 1
\* from each other, nothing used yet, and no truck
DepotInit ==
    /\ \E d \in [ 1..(DepotShape[1] + DepotShape[2]) -> DepotDistances ] :
         /\ n = DepotShape[1]
         /\ m = DepotShape[2]
         /\ matrix_raw =
                [ i \in 0..(DepotShape[1] + DepotShape[2]) |->
                    [ j \in 0..(DepotShape[1] + DepotShape[2]) |->
                        IF i = j THEN 0
                        ELSE IF i = 0 THEN d[j]
                        ELSE IF j = 0 THEN d[i]
                        ELSE 1 ] ]
    /\ restrictions = [ t \in 0..0 |-> MaxFuel ]
    /\ truck_ids = << 0 >>
    /\ matrix = Matrix_init
    /\ truck = NoTruck
    /\ pc = "depot"
    /\ mode = "seed"
    /\ vi = 1
    /\ seeds = << >>
    /\ alternatives = << >>
    /\ all_alternatives = {}
    /\ best_result = 0
    /\ best_route = << >>
    /\ counter = 0
    /\ ret = [ result |-> << >>, route |-> << >> ]
    /\ trucks_routes = << >>
    /\ score = 0
    /\ raised = ""
    /\ trip = NoTrip
    /\ mp_results = << >>
    /\ reports = {}
    /\ passes = 0
    /\ entry = Matrix_init
    /\ stack = << >>
    /\ log = NoLog

\* what a call of Matrix.use or Matrix.free leaves behind: the Matrix, and
\* the exception if it raised one; entry keeps the Matrix before the call
DepotCall(called) ==
    /\ matrix' = called.matrix
    /\ entry' = matrix
    /\ IF called.raised # ""
       THEN pc' = "raised" /\ raised' = called.raised
       ELSE pc' = pc /\ raised' = raised
    /\ seeds' = << >>
    /\ UNCHANGED << stack, pool, passes, inputs, log, truck, mode, vi,
                    alternatives, all_alternatives, best_result, best_route,
                    counter, ret, trucks_routes, score, trip >>

\* Matrix.use is called with a point, in use or not
DepotUse ==
    /\ pc = "depot"
    /\ \E point \in Points : DepotCall(Matrix_use(matrix, point))

\* Matrix.free is called with a point, in use or not
DepotFree ==
    /\ pc = "depot"
    /\ \E point \in Points : DepotCall(Matrix_free(matrix, point))

\* line 63 of truck_processor.py: the initial distances are asked for
DepotSeeds ==
    /\ pc = "depot"
    /\ seeds = << >>
    /\ LET initial == get_initial_closest_distances(matrix)
       IN  IF initial.stop
           THEN /\ pc' = "raised"
                /\ raised' = "StopIteration"
                /\ seeds' = << >>
           ELSE /\ pc' = pc
                /\ raised' = raised
                /\ seeds' = [ i \in 1..Len(initial.distances) |->
                                << initial.distances[i] >> ] \o << << >> >>
    /\ UNCHANGED << stack, pool, passes, entry, inputs, log, matrix, truck,
                    mode, vi, alternatives, all_alternatives, best_result,
                    best_route, counter, ret, trucks_routes, score, trip >>

DepotNext ==
    \/ DepotUse
    \/ DepotFree
    \/ DepotSeeds

DepotSpec == DepotInit /\ [][DepotNext]_vars

(* ------------------------------ properties ----------------------------- *)

\* the points of the routes iteration has recorded so far, as (truck, place)
Recorded ==
    { << t, i >> : t \in DOMAIN trucks_routes, i \in 1..(n + m) } \cap
    { e \in (DOMAIN trucks_routes) \X (1..(n + m)) :
        e[2] <= Len(trucks_routes[e[1]]) }

RecordedPoints ==
    UNION { Range(trucks_routes[t]) : t \in DOMAIN trucks_routes }

RECURSIVE PathLength(_, _)
\* the matrix distance along from -> route[1] -> ... -> route[Len(route)]
PathLength(from, route) ==
    IF route = << >> THEN 0
    ELSE distance(from, route[1]) + PathLength(route[1], Tail(route))

\* the N-points of a route minus its M-points
Balance(route) ==
    Cardinality({ i \in 1..Len(route) : is_n_point(route[i]) })
    - Cardinality({ i \in 1..Len(route) : is_m_point(route[i]) })

\* C1: when iteration returns, no point occurs twice in the returned routes,
\* neither inside one route nor in the routes of two vehicles.
C1_GlobalExclusivity ==
    pc = "returned" =>
        \A a, b \in Recorded :
            a # b => trucks_routes[a[1]][a[2]] # trucks_routes[b[1]][b[2]]

\* two vehicles came back with a route each
C1_Witness ==
    /\ pc = "returned"
    /\ Len(truck_ids) = 2
    /\ \A t \in DOMAIN trucks_routes : trucks_routes[t] # << >>

\* C2: the distance a truck has accumulated is the matrix distance along
\* depot -> route, and never exceeds its fuel.
C2_DistanceWithinFuel ==
    /\ truck.distance = PathLength(0, truck.route)
    /\ truck.distance <= truck.fuel

\* a truck that replayed a hint, went on by queries, unloaded, and stands on
\* a route that takes all its fuel
C2_Witness ==
    /\ pc = "calculate"
    /\ truck.hint # << >>
    /\ truck.hint_used
    /\ truck.unloading
    /\ truck.route # << >>
    /\ truck.distance = truck.fuel

\* C3: the cargo is the number of N-points of the route minus the number of
\* its M-points, and lies in 0..capacity.
C3_CargoInRange ==
    /\ truck.cargo = Balance(truck.route)
    /\ truck.cargo >= 0
    /\ truck.cargo <= truck.capacity

\* a truck filled up to its capacity by the points of its hint alone
C3_Witness ==
    /\ pc = "calculate"
    /\ ~truck.hint_used
    /\ truck.hint # << >>
    /\ Len(truck.route) < Len(truck.hint)
    /\ truck.cargo = truck.capacity

\* C4: when Truck.calculate returns (the truck is done and nothing has been
\* unloaded since), the truck carries nothing; so the best route and every
\* recorded route hold as many M-points as N-points.
C4_DoneMeansEmpty ==
    /\ pc = "calculate" /\ truck.done => truck.cargo = 0
    /\ Balance(best_route) = 0
    /\ \A t \in DOMAIN trucks_routes : Balance(trucks_routes[t]) = 0

\* a truck done after an unload, on a route of its own
C4_Witness ==
    /\ pc = "calculate"
    /\ truck.done
    /\ truck.route # << >>
    /\ truck.safepoint # 0
    /\ best_route # << >>

\* C5: no StopIteration of a Matrix query leaves iteration.
C5_StopIterationAbsorbed == raised # "StopIteration"

\* the N-points among a set of points
NPoints(S) == { p \in S : is_n_point(p) }

\* C6: when the replay of the best route (line 102) is over, the route of
\* the truck is the best route, the occupancy is the occupancy the vehicle
\* started from (the routes recorded before) plus that route, and the
\* N-point counter is the recorded best result; for a vehicle that recorded
\* no route it is the counter the vehicle started from.
C6_HintReplay ==
    pc = "calculate" /\ mode = "commit" /\ truck.done =>
        /\ truck.route = best_route
        /\ matrix.used = RecordedPoints
        /\ best_route # << >> => matrix.used_n = best_result
        /\ best_route = << >> =>
            matrix.used_n = Cardinality(NPoints(RecordedPoints))

\* the replay of a best route that went on by queries past the hint, had to
\* unload, and came back to the best route
C6_Witness ==
    /\ pc = "calculate"
    /\ mode = "commit"
    /\ truck.done
    /\ best_route # << >>
    /\ truck.route = best_route
    /\ truck.hint_used
    /\ truck.safepoint # 0

\* C7: the score iteration returns is the number of N-points in the routes
\* it returns.
C7_Score ==
    pc = "returned" => score = Cardinality(NPoints(RecordedPoints))

\* two vehicles came back, each with N-points of its own
C7_Witness ==
    /\ pc = "returned"
    /\ Len(truck_ids) = 2
    /\ \A t \in DOMAIN trucks_routes : NPoints(Range(trucks_routes[t])) # {}
    /\ score = 2

\* C8: _add_route_point followed by the pop of that point through
\* Truck.unload gives back the occupancy, the N-point counter, the distance,
\* the cargo and the route: for every point free in the state, and for
\* every pop that directly followed a commit in the run.
C8_RoundTrip ==
    /\ trip.stage = "popped" => Snapshot(truck, matrix) = trip.snap
    /\ \A point \in Points \ matrix.used :
         LET added == add_route_point(truck, matrix, point,
                                      distance(get_position(truck), point))
             back  == unload(added.truck, added.matrix,
                             Len(added.truck.route) - 2)
         IN  /\ added.raised = ""
             /\ back.raised = ""
             /\ Snapshot(back.truck, back.matrix) = Snapshot(truck, matrix)

\* an M-point committed by the loop of calculate and popped by _unload_one
\* in the next step
C8_Witness ==
    /\ trip.stage = "popped"
    /\ pc = "unload_one"
    /\ trip.snap.route # << >>
    /\ trip.snap.cargo > 0

\* C9: one vehicle, one N-point, one M-point and d(0,1) + d(1,2) <= fuel:
\* iteration raises nothing and returns the route [1, 2] and the score 1.
C9_SinglePair ==
    ( /\ n = 1
      /\ m = 1
      /\ Len(truck_ids) = 1
      /\ distance(0, 1) + distance(1, 2) <= restrictions[truck_ids[1]] )
    => /\ raised = ""
       /\ pc = "returned" =>
            /\ trucks_routes[truck_ids[1]] = << 1, 2 >>
            /\ score = 1

\* such a run has returned, over a matrix with d(0,2) > d(0,1) + d(1,2)
C9_Witness ==
    /\ n = 1
    /\ m = 1
    /\ Len(truck_ids) = 1
    /\ distance(0, 1) + distance(1, 2) <= restrictions[truck_ids[1]]
    /\ distance(0, 2) > distance(0, 1) + distance(1, 2)
    /\ pc = "returned"
    /\ score = 1

\* some free N-point lies within the fuel
NInReach(used, fuel) ==
    \E a \in Points \ used : is_n_point(a) /\ distance(0, a) <= fuel

\* some free N-point and free M-point can be visited in turn within the fuel
PairInReach(used, fuel) ==
    \E a, b \in Points \ used :
        /\ is_n_point(a)
        /\ is_m_point(b)
        /\ distance(0, a) + distance(a, b) <= fuel

\* no way between two points is shorter over a third point
Triangle ==
    \A i, j, k \in Points : distance(i, k) <= distance(i, j) + distance(j, k)

\* what C10 concludes for a vehicle that `starved` describes, given the
\* occupancy and the fuel; where iteration ends by StopIteration instead, the
\* vehicle found every point occupied and left the occupancy as it was
C10_Conclusion(starved(_, _)) ==
    /\ ( /\ pc \in { "seed", "explore", "commit" }
         /\ starved(matrix.used, restrictions[index]) )
       => best_route = << >> /\ best_result = 0
    /\ ( /\ pc = "calculate" /\ mode = "commit" /\ truck.done
         /\ starved(matrix.used \ Range(truck.route), restrictions[index]) )
       => /\ truck.route = << >>
          /\ matrix.used = RecordedPoints
          /\ matrix.used_n = Cardinality(NPoints(RecordedPoints))
    /\ ( /\ pc = "returned"
         /\ Len(truck_ids) = 1
         /\ starved({}, restrictions[truck_ids[1]]) )
       => score = 0 /\ trucks_routes[truck_ids[1]] = << >>
    /\ ( /\ pc = "raised" /\ raised = "StopIteration"
         /\ starved(matrix.used, restrictions[index]) )
       => /\ best_route = << >>
          /\ matrix.used = RecordedPoints
          /\ matrix.used = Points

\* C10 as claimed: no free N-point within the fuel, or none from which a
\* free M-point is within the fuel that is left
C10_Starved(used, fuel) == ~PairInReach(used, fuel)

C10_StarvedMetric(used, fuel) ==
    \/ ~NInReach(used, fuel)
    \/ Triangle /\ ~PairInReach(used, fuel)

C11_BestMonotone ==
    [][ pc # "truck" =>
          /\ best_result' >= best_result
          /\ best_route' # best_route =>
               /\ best_result' > best_result
               /\ best_route' # << >> ]_vars

\* process_truck has come back with a route that beats a best result some
\* earlier attempt of the vehicle had set
C11_Witness ==
    /\ pc = "unload"
    /\ truck.route = << >>
    /\ improved(ret)
    /\ best_result > 0
    /\ best_route # << >>
    /\ ret.result[1] > best_result
    /\ ret.route[1] # best_route

\* C12: whatever results were reported and in whatever order, the best
\* result selected from the map has the largest reported score, and its
\* routes are the routes of a report with that score.
C12_MaxMerge ==
    reports # {} =>
        LET best == results_best(mp_results)
        IN  /\ best.transfered = Max({ r[1] : r \in reports })
            /\ << best.transfered, best.routes >> \in reports

\* a lower score and two different route sets with the best score were
\* reported
C12_Witness ==
    /\ pc = "pool"
    /\ \E low, a, b \in reports :
         /\ a # b
         /\ a[1] = b[1]
         /\ low[1] < a[1]
         /\ a[1] = Max({ r[1] : r \in reports })
    /\ DOMAIN mp_results = { r[1] : r \in reports }

QueryCommit ==
    /\ pc = "calculate"
    /\ ~truck.done
    /\ ~(~truck.hint_used /\ Len(truck.hint) >= Len(truck.route) + 1)
    /\ Len(truck'.route) = Len(truck.route) + 1

\* C14 as claimed: a point a query commits while the truck carries cargo is
\* an M-point, and one it commits with no cargo is an N-point.
C14_AsClaimed ==
    [][ QueryCommit =>
          /\ truck.cargo > 0 => is_m_point(Last(truck'.route))
          /\ truck.cargo = 0 => is_n_point(Last(truck'.route)) ]_vars

\* C14, amended: a point a query commits is an N-point when the truck is
\* empty, and an M-point when the truck is full or is unloading; a truck
\* that is neither empty nor full nor unloading takes either kind.
C14_AllowedKind ==
    [][ QueryCommit =>
          /\ truck.cargo = 0 => is_n_point(Last(truck'.route))
          /\ truck.cargo = truck.capacity => is_m_point(Last(truck'.route))
          /\ truck.cargo > 0 /\ truck.unloading
               => is_m_point(Last(truck'.route)) ]_vars

\* a truck built by queries alone took an M-point when it was full, or when
\* it was unloading with room left
C14_Witness ==
    /\ pc = "calculate"
    /\ mode = "seed"
    /\ trip.stage = "added"
    /\ is_m_point(Last(truck.route))
    /\ \/ trip.snap.cargo = truck.capacity
       \/ trip.snap.cargo < truck.capacity /\ truck.safepoint # 0

\* what the query of a QueryCommit step returned
Queried == calculate_nearest(calculate_empty_check(truck, matrix).truck, matrix)

\* one alternative for every candidate but the first: the route so far and
\* that candidate
Extras(route, points) ==
    [ i \in 1..(Len(points) - 1) |-> Append(route, points[i + 1]) ]

Candidates(point, maximum_distance, point_restriction, force_distance) ==
    { t \in 1..(n + m) :
        /\ t # point
        /\ t \notin matrix.used
        /\ point_restriction = "N" => t <= n
        /\ point_restriction = "M" => t > n
        /\ matrix_raw[point][t] <= maximum_distance
        /\ force_distance # << >> => matrix_raw[point][t] = force_distance[1] }

\* C16: nearest_point returns the smallest distance at which there is a
\* candidate, all the candidates at that distance in ascending order, and
\* whether that distance is at most 10 times the smallest distance from the
\* source to any other point but the depot; it stops exactly if there is no
\* candidate.
C16_NearestPoint ==
    \A point \in 0..(n + m), maximum_distance \in 0..MaxFuel,
       point_restriction \in PointRestrictions,
       force_distance \in ForceDistances :
        LET found == nearest_point(matrix, point, maximum_distance,
                                   point_restriction, force_distance)
            cand  == Candidates(point, maximum_distance, point_restriction,
                                force_distance)
            least == Min({ matrix_raw[point][t] : t \in (1..(n + m)) \ {point} })
        IN  /\ found.stop <=> cand = {}
            /\ cand # {} =>
                 /\ \E t \in cand : matrix_raw[point][t] = found.distance
                 /\ \A t \in cand : matrix_raw[point][t] >= found.distance
                 /\ Range(found.points) =
                        { t \in cand : matrix_raw[point][t] = found.distance }
                 /\ \A i, j \in 1..Len(found.points) :
                        i < j => found.points[i] < found.points[j]
                 /\ found.closest <=>
                        found.distance <= CLOSEST_DISTANCE_RANGE * least

\* with points in use, some query passes over a nearer used point and
\* returns two targets at a distance outside the closest range
C16_Witness ==
    /\ pc = "query"
    /\ \E point \in 0..(n + m), point_restriction \in PointRestrictions :
         LET found == nearest_point(matrix, point, MaxFuel,
                                    point_restriction, << >>)
         IN  /\ ~found.stop
             /\ Len(found.points) >= 2
             /\ ~found.closest
             /\ \E u \in matrix.used :
                  /\ u # point
                  /\ matrix_raw[point][u] < found.distance

\* the points of the routes committed for the vehicles before the one being
\* processed
Earlier ==
    UNION { Range(trucks_routes[truck_ids[i]]) :
              i \in { j \in 1..(vi - 1) : truck_ids[j] \in DOMAIN trucks_routes } }

\* C17: between any two steps of iteration the points in use are the points
\* of the routes committed for earlier vehicles and of the route of the
\* latest Truck, and the counter is the number of N-points among them.
C17_Occupancy ==
    pc \notin { "pool", "query" } =>
        /\ matrix.used = Earlier \cup Range(truck.route)
        /\ matrix.used_n = Cardinality(NPoints(matrix.used))
        /\ \A i \in 1..(vi - 1) : truck_ids[i] \in DOMAIN trucks_routes

\* the second vehicle of an order has built a route next to the committed
\* route of the first and has just popped a point
C17_Witness ==
    /\ vi = 2
    /\ Earlier # {}
    /\ truck.route # << >>
    /\ Range(truck.route) \cap Earlier = {}
    /\ trip.stage = "popped"

\* C18: when process_truck returns (line 53), the Matrix is as it was when
\* the Truck of the call was created, and so it is when the loop over the
\* alternatives has been left, by an empty list or by the clock: only the
\* routes of earlier vehicles are in use.
C18_ProcessTruckFrame ==
    /\ pc = "unload" /\ truck.route = << >> => matrix = entry
    /\ pc = "commit" =>
         /\ matrix = entry
         /\ matrix.used = Earlier
         /\ matrix.used_n = Cardinality(NPoints(Earlier))

\* the clock ended the loop with alternatives pending, after the replay of an
\* alternative that had gone on beyond its hint
C18_Witness ==
    /\ pc = "commit"
    /\ mode = "explore"
    /\ alternatives # << >>
    /\ truck.hint # << >>
    /\ truck.hint_used
    /\ truck.route = << >>
    /\ passes > Len(truck.hint) + 1

\* the failures Matrix and Truck raise when use and free do not mirror each
\* other
InvariantFailures ==
    { "Exception: already used",
      "Exception: Hint point already used",
      "KeyError",
      "Exception: Wrong unload index",
      "IndexError: Unloaded until start position" }

\* C19: no run of iteration raises one of the failures of a used point used
\* again, a hint point already used, a free point freed, a wrong unload
\* index, or a route popped past its start.
C19_NoInvariantFailure == raised \notin InvariantFailures

\* the replay of an alternative took its hint points, went on by queries,
\* unloaded through _unload_one and is done, nothing raised
C19_Witness ==
    /\ pc = "calculate"
    /\ mode = "explore"
    /\ truck.done
    /\ truck.hint # << >>
    /\ truck.hint_used
    /\ truck.unloading
    /\ truck.route # << >>
    /\ raised = ""

\* C20: the point a step of iteration frees is the point used last among
\* the points still in use, and the points in use are those of the history.
C20_Lifo ==
    [][ pc \notin { "pool", "query" } =>
          /\ Range(stack) = matrix.used
          /\ \A point \in matrix.used \ matrix'.used :
               stack # << >> /\ point = Last(stack) ]_vars

\* a truck of the second vehicle has just freed its last point, above the
\* points of the first vehicle and above its own earlier points
C20_Witness ==
    /\ vi = 2
    /\ trip.stage = "popped"
    /\ Earlier # {}
    /\ truck.route # << >>
    /\ Len(stack) >= 3
    /\ Last(stack) = Last(truck.route)
    /\ Head(stack) \in Earlier

\* C21: for the vehicle being processed, every point sequence was appended
\* to the pending list at most once over all its seed and exploration trucks,
\* the pending list holds no sequence twice, and every sequence popped from
\* it for a replay had been appended and was popped once.
C21_AppendedOnce ==
    pc \notin { "pool", "query" } =>
        /\ \A a \in BagToSet(log.appended) : CopiesIn(a, log.appended) = 1
        /\ \A a \in BagToSet(log.replayed) :
             /\ CopiesIn(a, log.replayed) = 1
             /\ a \in BagToSet(log.appended)
             /\ a \notin Range(alternatives)
        /\ \A i, j \in 1..Len(alternatives) :
             alternatives[i] = alternatives[j] => i = j
        /\ Range(alternatives) \subseteq BagToSet(log.appended)

\* a sequence that two trucks of the vehicle came upon was appended by the
\* first of them only, and has been popped and replayed since
C21_Witness ==
    /\ pc = "unload"
    /\ mode = "explore"
    /\ \E a \in log.rejected :
         /\ CopiesIn(a, log.appended) = 1
         /\ CopiesIn(a, log.replayed) = 1
         /\ a \notin Range(alternatives)

\* the distances from the depot to the points not in use
UnusedDepotDistances == { matrix_raw[0][t] : t \in (1..(n + m)) \ matrix.used }

\* C22: whenever a point other than the depot is not in use,
\* get_initial_closest_distances returns a strictly ascending list that
\* starts with the smallest distance c from the depot to a point not in use
\* and holds exactly the distances d from the depot with c <= d <= 10 * c;
\* the seeds of a vehicle are that list, followed by None.
C22_InitialDistances ==
    (pc \notin { "pool", "query" } /\ UnusedDepotDistances # {}) =>
        LET initial == get_initial_closest_distances(matrix)
            c       == Min(UnusedDepotDistances)
            listed  == initial.distances
        IN  /\ ~initial.stop
            /\ listed # << >>
            /\ listed[1] = c
            /\ \A i, j \in 1..Len(listed) : i < j => listed[i] < listed[j]
            /\ Range(listed) =
                   { matrix_raw[0][t] : t \in 1..(n + m) }
                       \cap (c..(CLOSEST_DISTANCE_RANGE * c))
            /\ (\/ pc = "seed" /\ Len(seeds) = Len(listed) + 1
                \/ pc = "depot" /\ seeds # << >>) =>
                   seeds = [ i \in 1..Len(listed) |-> << listed[i] >> ]
                               \o << << >> >>

\* the initial distances were asked for while the points nearest to the
\* depot are in use: the list starts above the smallest distance from the
\* depot, has more than one element, and leaves out a distance that is
\* more than 10 times its first
C22_Witness ==
    /\ pc = "depot"
    /\ matrix.used # {}
    /\ Len(seeds) >= 3
    /\ seeds[1][1] = Min(UnusedDepotDistances)
    /\ seeds[1][1] > Min({ matrix_raw[0][t] : t \in 1..(n + m) })
    /\ \E t \in 1..(n + m) :
         matrix_raw[0][t] > CLOSEST_DISTANCE_RANGE * seeds[1][1]

\* the number of sequences of k distinct points out of np
RECURSIVE Arrangements(_, _)
Arrangements(np, k) ==
    IF k = 0 THEN 1 ELSE (np - k + 1) * Arrangements(np, k - 1)

\* the number of non-empty sequences of distinct points
RECURSIVE NumSequences(_)
NumSequences(k) ==
    IF k = 0 THEN 0 ELSE Arrangements(n + m, k) + NumSequences(k - 1)

\* what is left of the exploration of the vehicle: the sequences that can
\* still enter the pending list, counted twice, and the pending ones
Variant ==
    2 * (NumSequences(n + m) - BagCardinality(log.appended))
        + Len(alternatives)

\* C23: while a vehicle is processed the exploration has a bound that never
\* grows and that every pass of the loop over the pending list lowers: the
\* appended sequences are sequences of distinct points, each appended once,
\* and a pass pops one of them; so the pending list runs empty whether or
\* not the time check ever fires.
C23_ExplorationTerminates ==
    [][ (pc \notin { "pool", "query", "depot", "truck" }) =>
          /\ Variant >= 0
          /\ Variant' >= 0
          /\ Variant' <= Variant
          /\ (pc = "explore" /\ pc' = "calculate") => Variant' < Variant
          /\ \A a \in BagToSet(log.appended) :
               /\ CopiesIn(a, log.appended) = 1
               /\ Range(a) \subseteq 1..(n + m)
               /\ Cardinality(Range(a)) = Len(a) ]_vars

\* the loop over the pending list ended because the list was empty, after
\* three passes or more in none of which the time was over
C23_Witness ==
    /\ pc = "commit"
    /\ alternatives = << >>
    /\ counter >= 3
    /\ BagCardinality(log.replayed) = counter
    /\ BagCardinality(log.appended) = counter

\* C24: after Matrix.use or Matrix.free has failed, the points in use and
\* the counter of used N-points are what they were before the call.
C24_FailureLeavesUnchanged ==
    (pc = "raised" /\ raised \in { "Exception: already used", "KeyError" }) =>
        /\ matrix.used = entry.used
        /\ matrix.used_n = entry.used_n

=============================================================================
